---- MODULE Spec2Model ----
(***************************************************************************)
(* Content-fetch orchestration and view resolution of server.js: the       *)
(* sidebar aggregator getSidebarData and the three route handlers (home,   *)
(* single post, category archive) running against a nondeterministic       *)
(* WordPress REST upstream.  One request context is modelled at a time;    *)
(* the handlers share no mutable state across requests.                    *)
(***************************************************************************)
EXTENDS Integers, Sequences, FiniteSets, TLC

\* ---------------------------------------------------------------- bounds
\* longest route parameter / header value (in characters)
MaxLen == 2

\* ------------------------------------------------------- strings, parseInt
\* the characters route parameters and header values are built from: the
\* digit zero, a non-zero digit, and "-", which is a sign in front of a digit
\* and a non-digit anywhere else
Chars == {"-", "0", "2"}

Digits == {"0", "1", "2", "3", "4", "5", "6", "7", "8", "9"}

DigitVal(c) ==
  CASE c = "0" -> 0 [] c = "1" -> 1 [] c = "2" -> 2 [] c = "3" -> 3
    [] c = "4" -> 4 [] c = "5" -> 5 [] c = "6" -> 6 [] c = "7" -> 7
    [] c = "8" -> 8 [] c = "9" -> 9

StringsUpTo(n) == UNION {[1..k -> Chars] : k \in 0..n}

\* a JS value that is either undefined or a string
Undefined == [present |-> FALSE, chars |-> <<>>]
Str(s) == [present |-> TRUE, chars |-> s]

\* the result of parseInt: NaN or an integer
NaN == [nan |-> TRUE, val |-> 0]
Num(n) == [nan |-> FALSE, val |-> n]

RECURSIVE SkipSpace(_)
SkipSpace(s) ==
  IF s # <<>> /\ Head(s) = " " THEN SkipSpace(Tail(s)) ELSE s

\* value of the longest prefix of decimal digits of s, continuing from acc
RECURSIVE DigitsValue(_, _)
DigitsValue(s, acc) ==
  IF s = <<>> \/ Head(s) \notin Digits
  THEN acc
  ELSE DigitsValue(Tail(s), acc * 10 + DigitVal(Head(s)))

\* parseInt(v, 10): undefined stringifies to "undefined" (NaN); leading
\* white space is skipped, one sign is read, then the longest digit prefix;
\* no digit at all gives NaN
ParseInt(v) ==
  IF ~v.present THEN NaN
  ELSE LET t == SkipSpace(v.chars)
           signed == t # <<>> /\ Head(t) \in {"-", "+"}
           body == IF signed THEN Tail(t) ELSE t
           neg == signed /\ Head(t) = "-"
       IN IF body = <<>> \/ Head(body) \notin Digits
          THEN NaN
          ELSE Num((IF neg THEN -1 ELSE 1) * DigitsValue(body, 0))

\* n || 1 on a parseInt result: NaN and (+/-)0 are falsy
OrOne(r) == IF r.nan \/ r.val = 0 THEN 1 ELSE r.val

\* const currentPage = parseInt(req.params.pageNumber, 10) || 1
CurrentPageOf(pageNumber) == OrOne(ParseInt(pageNumber))

\* const totalPages = parseInt(postsRes.headers["x-wp-totalpages"], 10) || 1
TotalPagesOf(header) == OrOne(ParseInt(header))

\* ------------------------------------------------------- upstream entities
\* the content of the upstream backend, in listing order
AllCategories ==
  << [id |-> 7, slug |-> "news", name |-> "News"],
     [id |-> 9, slug |-> "tech", name |-> "Tech"] >>

AllPosts ==
  << [id |-> 1, slug |-> "hello", title |-> [rendered |-> "Hello"]],
     [id |-> 2, slug |-> "bye", title |-> [rendered |-> "Bye"]] >>

\* slugs a request may carry
Slugs == {"news", "missing"}

\* a response body: an array of entities, or something that is not an array
Arr(items) == [isArray |-> TRUE, items |-> items]
NotArray == [isArray |-> FALSE, items |-> <<>>]

\* every duplicate-free sequence of entities of the listing all
DistinctSeqs(all) ==
  {s \in UNION {[1..k -> {all[i] : i \in 1..Len(all)}] : k \in 0..Len(all)} :
     \A i, j \in 1..Len(s) : i # j => s[i] # s[j]}

\* route parameter :pageNumber is absent or a non-empty path segment
PageParams == {Undefined} \cup {Str(s) : s \in StringsUpTo(MaxLen) \ {<<>>}}
\* the x-wp-totalpages header is missing or any string
Headers == {Undefined} \cup {Str(s) : s \in StringsUpTo(MaxLen)}

\* ------------------------------------------------------------- the upstream
\* the outbound calls of one request: the two calls of getSidebarData, the
\* first primary call of the route (posts page / posts by slug / category
\* lookup) and the archive's dependent posts-by-category call
CallIds == {"sbCategories", "sbRecent", "primary", "catPosts"}

NoCall == [st |-> "none", params |-> <<>>, data |-> NotArray, header |-> Undefined]
Issue(params) ==
  [st |-> "pending", params |-> params, data |-> NotArray, header |-> Undefined]

\* wpApi.get("/categories", { params: { per_page: 20, hide_empty: true } })
SidebarCategoriesParams == [path |-> "/categories", per_page |-> 20, hide_empty |-> TRUE]
\* wpApi.get("/posts", { params: { per_page: 5 } })
SidebarRecentParams == [path |-> "/posts", per_page |-> 5]
\* wpApi.get("/posts", { params: { per_page: 10, page: currentPage } })
HomePostsParams(page) == [path |-> "/posts", per_page |-> 10, page |-> page]
\* wpApi.get("/posts", { params: { slug, _embed: true } })
PostParams(s) == [path |-> "/posts", slug |-> s, embed |-> TRUE]
\* wpApi.get("/categories", { params: { slug } })
CategoryLookupParams(s) == [path |-> "/categories", slug |-> s]
\* wpApi.get("/posts", { params: { categories: category.id, per_page: 10, page } })
CategoryPostsParams(category, page) ==
  [path |-> "/posts", categories |-> category.id, per_page |-> 10, page |-> page]

\* bodies a 2xx response to a call may carry.  A lookup by slug answers any
\* result set and a listing answers nothing or the listing; a call whose
\* body the handlers inspect (every call but the two of getSidebarData, which
\* passes the bodies on unread) may also answer something that is not an array
BodiesFor(params) ==
  LET all == IF params.path = "/categories" THEN AllCategories ELSE AllPosts
  IN (IF "slug" \in DOMAIN params
      THEN {Arr(s) : s \in DistinctSeqs(all)}
      ELSE {Arr(<<>>), Arr(all)})
     \cup (IF params \in {SidebarCategoriesParams, SidebarRecentParams}
           THEN {} ELSE {NotArray})

\* only paged posts responses carry a total-pages header the code reads
HeadersFor(params) ==
  IF "page" \in DOMAIN params THEN Headers ELSE {Undefined}

VARIABLES
  pc,          \* position of the route handler
  req,         \* the request: route and slug parameter
  currentPage, \* the handler's local currentPage
  category,    \* the archive handler's local category
  calls,       \* the upstream calls of this request
  issued,      \* the upstream calls in the order wpApi.get was invoked
  sidebar,     \* the promise returned by getSidebarData
  res          \* the response: status, number of render calls, view and data bag

vars == <<pc, req, currentPage, category, calls, issued, sidebar, res>>

NoCategory == [id |-> 0, slug |-> "", name |-> ""]
NoSidebar == [st |-> "none", data |-> <<>>]
\* a fresh Express response: status 200, nothing rendered
FreshRes == [status |-> 200, renders |-> 0, view |-> "", bag |-> <<>>]

\* res.status(code).render(view, bag) / res.render(view, bag)
Render(r, code, view, bag) ==
  [status |-> code, renders |-> r.renders + 1, view |-> view, bag |-> bag]

Settled(c) == c.st \in {"ok", "fail"}

\* ------------------------------------------------------------ getSidebarData
\* Promise.all of the two sidebar calls has settled: rejected as soon as one
\* call failed, fulfilled when both succeeded
SidebarAllSettled(cs) ==
  \/ cs["sbCategories"].st = "fail"
  \/ cs["sbRecent"].st = "fail"
  \/ cs["sbCategories"].st = "ok" /\ cs["sbRecent"].st = "ok"

\* getSidebarData as Promise.allSettled would make it: each list on its own
GetSidebarData_Partial(categoriesRes, recentPostsRes) ==
  [st |-> "done",
   data |-> [categories |-> IF categoriesRes.st = "ok" THEN categoriesRes.data
                            ELSE Arr(<<>>),
             recentPosts |-> IF recentPostsRes.st = "ok" THEN recentPostsRes.data
                             ELSE Arr(<<>>)]]

\* getSidebarData without its try/catch: a failed call rejects the promise
GetSidebarData_Rethrow(categoriesRes, recentPostsRes) ==
  IF categoriesRes.st = "ok" /\ recentPostsRes.st = "ok"
  THEN [st |-> "done",
        data |-> [categories |-> categoriesRes.data,
                  recentPosts |-> recentPostsRes.data]]
  ELSE [st |-> "rejected", data |-> <<>>]

\* how the promise returned by getSidebarData settles: with both bodies in
\* the try branch, with empty arrays in the catch branch
GetSidebarData(categoriesRes, recentPostsRes) ==
  IF categoriesRes.st = "ok" /\ recentPostsRes.st = "ok"
  THEN [st |-> "done",
        data |-> [categories |-> categoriesRes.data,
                  recentPosts |-> recentPostsRes.data]]
  ELSE [st |-> "done",
        data |-> [categories |-> Arr(<<>>), recentPosts |-> Arr(<<>>)]]

\* the synchronous part of getSidebarData(): both calls are issued
StartSidebar(cs) ==
  [cs EXCEPT !["sbCategories"] = Issue(SidebarCategoriesParams),
             !["sbRecent"] = Issue(SidebarRecentParams)]

\* getSidebarData resumes after its await and returns
SidebarSettle ==
  /\ sidebar.st = "running"
  /\ SidebarAllSettled(calls)
  /\ sidebar' = GetSidebarData(calls["sbCategories"], calls["sbRecent"])
  /\ UNCHANGED <<pc, req, currentPage, category, calls, issued, res>>

\* Promise.all([primary call, getSidebarData()]): rejected as soon as one of
\* the two is, fulfilled when both are
PromiseAll(primary, sb) ==
  IF primary.st = "fail" \/ sb.st = "rejected" THEN "rejected"
  ELSE IF primary.st = "ok" /\ sb.st = "done" THEN "fulfilled"
  ELSE "pending"

\* ------------------------------------------------------------------ upstream
RespondOk(c) ==
  /\ calls[c].st = "pending"
  /\ \E d \in BodiesFor(calls[c].params), h \in HeadersFor(calls[c].params) :
       calls' = [calls EXCEPT ![c] = [@ EXCEPT !.st = "ok", !.data = d, !.header = h]]
  /\ UNCHANGED <<pc, req, currentPage, category, issued, sidebar, res>>

\* network error or non-2xx response: axios rejects
RespondFail(c) ==
  /\ calls[c].st = "pending"
  /\ calls' = [calls EXCEPT ![c] = [@ EXCEPT !.st = "fail"]]
  /\ UNCHANGED <<pc, req, currentPage, category, issued, sidebar, res>>

\* ---------------------------------------------------------------- home route
HomeCatch(r) ==
  Render(r, 500, "error",
         [message |-> "Could not fetch posts. Please check the API connection.",
          title |-> "Error"])

\* the handler body after the await, given fulfilled postsRes and sidebarData
HomeBody(r, postsRes, sidebarData, page) ==
  LET totalPages == TotalPagesOf(postsRes.header)
  IN IF ~postsRes.data.isArray
     THEN HomeCatch(r)
     ELSE Render(r, r.status, "index",
                 [currentPage |-> page, totalPages |-> totalPages]
                 @@ sidebarData
                 @@ [posts |-> postsRes.data, title |-> "Modern Headless Blog"])

\* GET / and GET /page/:pageNumber up to the await
HomeRoute(pageNumber) ==
  /\ pc = "idle"
  /\ req' = [route |-> "home", slug |-> ""]
  /\ currentPage' = CurrentPageOf(pageNumber)
  /\ category' = NoCategory
  /\ calls' = StartSidebar([[c \in CallIds |-> NoCall] EXCEPT
                 !["primary"] = Issue(HomePostsParams(CurrentPageOf(pageNumber)))])
  /\ issued' = <<"primary", "sbCategories", "sbRecent">>
  /\ sidebar' = [st |-> "running", data |-> <<>>]
  /\ res' = FreshRes
  /\ pc' = "home_await"

\* Promise.all([posts, getSidebarData()]) settles and the handler finishes
HomeResume ==
  /\ pc = "home_await"
  /\ PromiseAll(calls["primary"], sidebar) # "pending"
  /\ res' = IF PromiseAll(calls["primary"], sidebar) = "rejected"
            THEN HomeCatch(res)
            ELSE HomeBody(res, calls["primary"], sidebar.data, currentPage)
  /\ pc' = "done"
  /\ UNCHANGED <<req, currentPage, category, calls, issued, sidebar>>

\* --------------------------------------------------------- single post route
PostCatch(r) ==
  Render(r, 500, "error",
         [message |-> "Could not fetch the post. Please check the API connection.",
          title |-> "Error"])

\* PostBody keeping the post in the not-found bag and titling by slug
PostBody_Slug(r, postRes, sidebarData) ==
  IF ~postRes.data.isArray
  THEN Render(r, 404, "error",
              sidebarData
              @@ [message |-> "The post you were looking for could not be found.",
                  title |-> "Post Not Found"])
  ELSE IF Len(postRes.data.items) = 0
  THEN Render(r, 404, "error",
              sidebarData
              @@ [message |-> "The post you were looking for could not be found.",
                  title |-> "Post Not Found", post |-> postRes.data])
  ELSE Render(r, r.status, "single-post",
              sidebarData
              @@ [post |-> postRes.data.items[1],
                  title |-> postRes.data.items[1].slug])

\* the handler body after the await, given fulfilled postRes and sidebarData
PostBody(r, postRes, sidebarData) ==
  IF ~postRes.data.isArray \/ Len(postRes.data.items) = 0
  THEN Render(r, 404, "error",
              sidebarData
              @@ [message |-> "The post you were looking for could not be found.",
                  title |-> "Post Not Found"])
  ELSE Render(r, r.status, "single-post",
              sidebarData
              @@ [post |-> postRes.data.items[1],
                  title |-> postRes.data.items[1].title.rendered])

\* GET /post/:slug up to the await
PostRoute(slug) ==
  /\ pc = "idle"
  /\ req' = [route |-> "post", slug |-> slug]
  /\ currentPage' = 1
  /\ category' = NoCategory
  /\ calls' = StartSidebar([[c \in CallIds |-> NoCall] EXCEPT
                 !["primary"] = Issue(PostParams(slug))])
  /\ issued' = <<"primary", "sbCategories", "sbRecent">>
  /\ sidebar' = [st |-> "running", data |-> <<>>]
  /\ res' = FreshRes
  /\ pc' = "post_await"

\* Promise.all([post, getSidebarData()]) settles and the handler finishes
PostResume ==
  /\ pc = "post_await"
  /\ PromiseAll(calls["primary"], sidebar) # "pending"
  /\ res' = IF PromiseAll(calls["primary"], sidebar) = "rejected"
            THEN PostCatch(res)
            ELSE PostBody(res, calls["primary"], sidebar.data)
  /\ pc' = "done"
  /\ UNCHANGED <<req, currentPage, category, calls, issued, sidebar>>

\* ---------------------------------------------------- category archive route
\* a catch block that rethrows instead of rendering
CategoryCatch_Rethrow(r) == r

CategoryCatch(r) ==
  Render(r, 500, "error",
         [message |-> "Could not fetch posts for this category.",
          title |-> "Error"])

\* the lookup found no category
CategoryNotFound(categoryRes) ==
  ~categoryRes.data.isArray \/ Len(categoryRes.data.items) = 0

CategoryNotFoundRender(r, sidebarData) ==
  Render(r, 404, "error",
         sidebarData
         @@ [message |-> "The category you were looking for could not be found.",
             title |-> "Category Not Found"])

\* the last match instead of the first
CategoryOf_Last(categoryRes) ==
  categoryRes.data.items[Len(categoryRes.data.items)]

\* const category = categoryRes.data[0]
CategoryOf(categoryRes) == categoryRes.data.items[1]

CategoryArchiveRender(r, postsRes, cat, sidebarData, page) ==
  LET totalPages == TotalPagesOf(postsRes.header)
  IN Render(r, r.status, "category-archive",
            [currentPage |-> page, totalPages |-> totalPages]
            @@ sidebarData
            @@ [posts |-> postsRes.data, category |-> cat,
                title |-> "Category: " \o cat.name])

\* GET /category/:slug and GET /category/:slug/page/:pageNumber up to the
\* first await: only getSidebarData() has been called
CategoryRoute(slug, pageNumber) ==
  /\ pc = "idle"
  /\ req' = [route |-> "category", slug |-> slug]
  /\ currentPage' = CurrentPageOf(pageNumber)
  /\ category' = NoCategory
  /\ calls' = StartSidebar([c \in CallIds |-> NoCall])
  /\ issued' = <<"sbCategories", "sbRecent">>
  /\ sidebar' = [st |-> "running", data |-> <<>>]
  /\ res' = FreshRes
  /\ pc' = "category_await_sidebar"

\* await getSidebarData() returns; the category lookup is issued
CategoryLookup ==
  /\ pc = "category_await_sidebar"
  /\ sidebar.st \in {"done", "rejected"}
  /\ IF sidebar.st = "rejected"
     THEN /\ res' = CategoryCatch(res)
          /\ pc' = "done"
          /\ UNCHANGED <<calls, issued>>
     ELSE /\ calls' = [calls EXCEPT
                         !["primary"] = Issue(CategoryLookupParams(req.slug))]
          /\ issued' = Append(issued, "primary")
          /\ pc' = "category_await_lookup"
          /\ UNCHANGED res
  /\ UNCHANGED <<req, currentPage, category, sidebar>>

\* the lookup settles: 500, 404, or the posts of the category are requested
CategoryPosts ==
  /\ pc = "category_await_lookup"
  /\ \/ /\ calls["primary"].st = "fail"
        /\ res' = CategoryCatch(res)
        /\ pc' = "done"
        /\ UNCHANGED <<category, calls, issued>>
     \/ /\ calls["primary"].st = "ok"
        /\ CategoryNotFound(calls["primary"])
        /\ res' = CategoryNotFoundRender(res, sidebar.data)
        /\ pc' = "done"
        /\ UNCHANGED <<category, calls, issued>>
     \/ /\ calls["primary"].st = "ok"
        /\ ~CategoryNotFound(calls["primary"])
        /\ category' = CategoryOf(calls["primary"])
        /\ calls' = [calls EXCEPT !["catPosts"] =
                       Issue(CategoryPostsParams(CategoryOf(calls["primary"]),
                                                 currentPage))]
        /\ issued' = Append(issued, "catPosts")
        /\ pc' = "category_await_posts"
        /\ UNCHANGED res
  /\ UNCHANGED <<req, currentPage, sidebar>>

\* the posts of the category settle and the handler finishes
CategoryResume ==
  /\ pc = "category_await_posts"
  /\ \/ /\ calls["catPosts"].st = "fail"
        /\ res' = CategoryCatch(res)
     \/ /\ calls["catPosts"].st = "ok"
        /\ res' = CategoryArchiveRender(res, calls["catPosts"], category,
                                        sidebar.data, currentPage)
  /\ pc' = "done"
  /\ UNCHANGED <<req, currentPage, category, calls, issued, sidebar>>

\* ------------------------------------------------------------ specification
Init ==
  /\ pc = "idle"
  /\ req = [route |-> "", slug |-> ""]
  /\ currentPage = 1
  /\ category = NoCategory
  /\ calls = [c \in CallIds |-> NoCall]
  /\ issued = <<>>
  /\ sidebar = NoSidebar
  /\ res = FreshRes

Next ==
  \/ \E p \in PageParams : HomeRoute(p)
  \/ HomeResume
  \/ \E s \in Slugs : PostRoute(s)
  \/ PostResume
  \/ \E s \in Slugs, p \in PageParams : CategoryRoute(s, p)
  \/ CategoryLookup
  \/ CategoryPosts
  \/ CategoryResume
  \/ SidebarSettle
  \/ \E c \in CallIds : RespondOk(c)
  \/ \E c \in CallIds : RespondFail(c)

Spec == Init /\ [][Next]_vars

\* every continuation that is ready runs, and every upstream call completes
Progress ==
  \/ HomeResume \/ PostResume
  \/ CategoryLookup \/ CategoryPosts \/ CategoryResume
  \/ SidebarSettle
  \/ \E c \in CallIds : RespondOk(c) \/ RespondFail(c)

FairSpec == Spec /\ WF_vars(Progress)

\* ================================================================ properties
Done == pc = "done"
EmptySidebar == [categories |-> Arr(<<>>), recentPosts |-> Arr(<<>>)]
SidebarCallFailed ==
  calls["sbCategories"].st = "fail" \/ calls["sbRecent"].st = "fail"
SidebarKeys == {"categories", "recentPosts"}

\* C1: getSidebarData never raises and is all-or-nothing: once it has
\* returned, if either of its two calls failed the value is exactly
\* {categories: [], recentPosts: []}, and if both succeeded the value is the
\* two response bodies.
C1_SidebarAllOrNothing ==
  /\ sidebar.st \in {"none", "running", "done"}
  /\ sidebar.st = "done" =>
       /\ SidebarCallFailed => sidebar.data = EmptySidebar
       /\ (calls["sbCategories"].st = "ok" /\ calls["sbRecent"].st = "ok") =>
            sidebar.data = [categories |-> calls["sbCategories"].data,
                            recentPosts |-> calls["sbRecent"].data]

\* one sidebar call failed while the other returned a non-empty list
C1_Witness ==
  /\ sidebar.st = "done"
  /\ calls["sbCategories"].st = "ok"
  /\ Len(calls["sbCategories"].data.items) > 0
  /\ calls["sbRecent"].st = "fail"

\* C2 (as claimed): every data bag passed to the renderer, the 500 error
\* view's included, has the keys categories and recentPosts.
C2_BagAlwaysHasSidebar ==
  res.renders > 0 => SidebarKeys \subseteq DOMAIN res.bag

\* C5 (as claimed): a primary fetch that fails or returns something that is
\* not an array always gives the error view with status 500.
PrimaryBad(c) == c.st = "fail" \/ (c.st = "ok" /\ ~c.data.isArray)
C5_PrimaryFailureIs500 ==
  (Done /\ (PrimaryBad(calls["primary"]) \/ PrimaryBad(calls["catPosts"]))) =>
    (res.status = 500 /\ res.view = "error")

\* C6: a sidebar failure never takes down a page: when a sidebar call failed
\* and every primary fetch of the resolver succeeded with an array, the
\* response is the view and status of the working-sidebar case (200 success
\* view, or 404 for an empty lookup), with categories = [] and
\* recentPosts = [], never the 500 error view.
PrimaryWellFormed(c) == c.st = "ok" /\ c.data.isArray
C6_PrimaryAllGood ==
  /\ PrimaryWellFormed(calls["primary"])
  /\ (req.route = "category" /\ Len(calls["primary"].data.items) > 0) =>
       PrimaryWellFormed(calls["catPosts"])
C6_ExpectedView ==
  IF req.route = "home" THEN <<200, "index">>
  ELSE IF Len(calls["primary"].data.items) = 0 THEN <<404, "error">>
  ELSE IF req.route = "post" THEN <<200, "single-post">>
  ELSE <<200, "category-archive">>
C6_SidebarFailureDegrades ==
  (Done /\ SidebarCallFailed /\ C6_PrimaryAllGood) =>
    /\ <<res.status, res.view>> = C6_ExpectedView
    /\ res.renders = 1
    /\ SidebarKeys \subseteq DOMAIN res.bag
    /\ res.bag.categories = Arr(<<>>)
    /\ res.bag.recentPosts = Arr(<<>>)

\* the archive page rendered although the sidebar's categories call failed
C6_Witness ==
  /\ Done /\ SidebarCallFailed /\ C6_PrimaryAllGood
  /\ req.route = "category"
  /\ res.view = "category-archive"

\* C8: single post route: an empty result gives status 404, the error view
\* with the not-found message, no post key and the gathered sidebar data;
\* exactly one item gives the single-post view with post equal to that item
\* and title equal to its title.rendered.
C8_SinglePost ==
  (Done /\ req.route = "post" /\ PrimaryWellFormed(calls["primary"])) =>
    LET items == calls["primary"].data.items
    IN /\ Len(items) = 0 =>
            /\ res.status = 404 /\ res.view = "error"
            /\ res.bag.message = "The post you were looking for could not be found."
            /\ "post" \notin DOMAIN res.bag
            /\ SidebarKeys \subseteq DOMAIN res.bag
            /\ res.bag.categories = sidebar.data.categories
            /\ res.bag.recentPosts = sidebar.data.recentPosts
       /\ Len(items) = 1 =>
            /\ res.status = 200 /\ res.view = "single-post"
            /\ res.bag.post = items[1]
            /\ res.bag.title = items[1].title.rendered

\* one matching post, rendered with a sidebar that has content
C8_Witness ==
  /\ Done /\ req.route = "post"
  /\ PrimaryWellFormed(calls["primary"])
  /\ Len(calls["primary"].data.items) = 1
  /\ res.view = "single-post"
  /\ Len(res.bag.categories.items) > 0

\* the page-number inputs the spec sends to page 1
IsDigitString(s) == s # <<>> /\ \A i \in 1..Len(s) : s[i] \in Digits
AllZero(s) == \A i \in 1..Len(s) : s[i] = "0"
PageAbsent(p) == ~p.present
PageNonNumeric(p) == p.present /\ \A i \in 1..Len(p.chars) : p.chars[i] \notin Digits
PageZero(p) == p.present /\ IsDigitString(p.chars) /\ AllZero(p.chars)
PageNegative(p) ==
  /\ p.present /\ p.chars # <<>> /\ Head(p.chars) = "-"
  /\ IsDigitString(Tail(p.chars)) /\ ~AllZero(Tail(p.chars))
PageNotPositive(p) ==
  PageAbsent(p) \/ PageNonNumeric(p) \/ PageZero(p) \/ PageNegative(p)

\* C3 (as claimed): for every page-number parameter that is absent,
\* non-numeric, zero or negative, the home and category archive routes use
\* page 1: currentPage is 1, and the page parameter of the upstream posts
\* request is currentPage.
C3_NotPositivePageIsOne ==
  [][/\ \A p \in PageParams :
          (/\ PageNotPositive(p)
           /\ HomeRoute(p) \/ \E s \in Slugs : CategoryRoute(s, p))
          => currentPage' = 1
     /\ \A c \in {"primary", "catPosts"} :
          "page" \in DOMAIN calls'[c].params =>
            calls'[c].params.page = currentPage']_vars

\* C4 (as claimed): in every data bag that carries pagination, currentPage
\* is a positive integer and totalPages is an integer >= 1.
C4_PaginationPositive ==
  (res.renders > 0 /\ "currentPage" \in DOMAIN res.bag) =>
    (res.bag.currentPage >= 1 /\ res.bag.totalPages >= 1)

CountOf(seq, x) == Cardinality({i \in 1..Len(seq) : seq[i] = x})
CategoryNotFoundMessage == "The category you were looking for could not be found."

\* what C7 says of a lookup that returned an array, up to the view rendered
C7_LookupPart ==
  /\ calls["catPosts"].st # "none" => calls["primary"].st = "ok"
  /\ (Done /\ req.route = "category" /\ PrimaryWellFormed(calls["primary"])) =>
       LET items == calls["primary"].data.items
       IN IF Len(items) = 0
          THEN /\ res.status = 404
               /\ res.bag.message = CategoryNotFoundMessage
               /\ CountOf(issued, "catPosts") = 0
          ELSE /\ CountOf(issued, "catPosts") = 1
               /\ calls["catPosts"].params.categories = items[1].id
               /\ "slug" \notin DOMAIN calls["catPosts"].params

C7_ArchiveRendered ==
  /\ res.status = 200
  /\ res.view = "category-archive"
  /\ res.bag.category = calls["primary"].data.items[1]
  /\ res.bag.title = "Category: " \o calls["primary"].data.items[1].name

\* C7 (as claimed): category archive route: an empty lookup gives 404 with
\* the category-not-found message and no posts fetch; a lookup that returns
\* a category gives exactly one posts fetch, issued after the lookup
\* completed and filtered by the id of the first returned category, and the
\* archive view rendered with that category and title "Category: {name}".
C7_ArchiveAlwaysRendered ==
  /\ C7_LookupPart
  /\ (/\ Done /\ req.route = "category"
      /\ PrimaryWellFormed(calls["primary"])
      /\ Len(calls["primary"].data.items) > 0) => C7_ArchiveRendered

\* C7 (amended): as claimed, except that the archive view is rendered with
\* that category and title when the posts fetch succeeds.
C7_ArchiveRenderedWhenPostsArrive ==
  /\ C7_LookupPart
  /\ (/\ Done /\ req.route = "category"
      /\ PrimaryWellFormed(calls["primary"])
      /\ Len(calls["primary"].data.items) > 0
      /\ calls["catPosts"].st = "ok") => C7_ArchiveRendered

\* the lookup returned two categories and the archive was rendered
C7_Witness ==
  /\ Done /\ req.route = "category"
  /\ PrimaryWellFormed(calls["primary"])
  /\ Len(calls["primary"].data.items) = 2
  /\ calls["catPosts"].st = "ok"
  /\ res.view = "category-archive"

C9_Answered ==
  /\ Done
  /\ res.renders = 1
  /\ res.view \in {"index", "single-post", "category-archive", "error"}
  /\ res.status \in {200, 404, 500}

\* C9: every request, whatever the upstream calls do, provided they all
\* complete, is eventually answered: the handler finishes having called the
\* renderer exactly once with a view and a status in {200, 404, 500}; the
\* renderer is never called twice.
C9_AnsweredExactlyOnce ==
  /\ [](res.renders <= 1)
  /\ (pc # "idle") ~> C9_Answered

\* a failed category lookup answered by the catch block
C9_Witness ==
  /\ C9_Answered
  /\ req.route = "category"
  /\ calls["primary"].st = "fail"
  /\ res.status = 500

\* C10 (as claimed): in each resolver the first primary fetch is issued
\* before any sidebar call has completed, and both sidebar calls are issued
\* before either completes.
C10_IndependentCallsConcurrent ==
  /\ (Settled(calls["sbCategories"]) \/ Settled(calls["sbRecent"])) =>
       calls["primary"].st # "none"
  /\ Settled(calls["sbCategories"]) => calls["sbRecent"].st # "none"
  /\ Settled(calls["sbRecent"]) => calls["sbCategories"].st # "none"

====
